---- MODULE Spec2Model ----
(***************************************************************************)
(* A model of the intervals-rs library: LimitValue, IntervalLimit and      *)
(* Interval.  The library is a set of pure functions over immutable        *)
(* values; the state of the model holds the operands of the most recent    *)
(* call and what that call returned.                                       *)
(***************************************************************************)
EXTENDS Integers, Sequences, FiniteSets, TLC

\* Bound of the value type T: T is modelled by the integers 0..MaxVal.
MaxVal == 2

\* Bound of the length of the list of limits that is sorted.
MaxLen == 3

\* Bound of the finite bound values of the intervals held by an IntervalSeq.
MaxSeqVal == 0

\* Bound of the number of intervals an IntervalSeq holds.
MaxSeqLen == 3

\* Bound of the number of intervals an IntervalSeq holds when every one of
\* its operations is called on it.
MaxOpsLen == 2

Values == 0..MaxVal

VARIABLES
  limits,        \* a Vec<IntervalLimit<T>> that is pushed to and sorted
  idx,           \* the positions in limits of the operands of partial_cmp
  self,          \* the receiver Interval
  other,         \* the argument Interval
  value,         \* the LimitValue argument of the most recent call
  args,          \* the arguments of the most recent call that takes several
  op,            \* the name of the most recent call
  ret_ord,       \* the Ordering the most recent call returned
  ret_bool,      \* the bool the most recent call returned
  ret_interval,  \* the Interval the most recent call returned
  panicked,      \* TRUE iff the most recent call panicked
  intervals,     \* the Vec<Interval<T>> of the IntervalSeq
  ret_seq,       \* the intervals the most recent call returned, in order
  ret_len,       \* the usize the most recent call returned
  ret_string,    \* the characters of the String the most recent call returned
  ret_value      \* the Result<&T, Error> or &T the most recent call returned

vars == <<limits, idx, self, other, value, args, op, ret_ord, ret_bool,
          ret_interval, panicked, intervals, ret_seq,
          ret_len, ret_string, ret_value>>

limit_vars == <<limits, idx>>
interval_vars == <<self, other, value, args, ret_bool, ret_interval, panicked,
                   intervals, ret_seq, ret_len, ret_string,
                   ret_value>>

-----------------------------------------------------------------------------
(* std::cmp::Ordering and the order of T *)

Less == "Less"
Equal == "Equal"
Greater == "Greater"
None == "None"

T_partial_cmp(x, y) ==
  IF x < y THEN Less ELSE IF x = y THEN Equal ELSE Greater

-----------------------------------------------------------------------------
(* limit_value.rs *)

Limit(v) == [limitless |-> FALSE, v |-> v]
Limitless == [limitless |-> TRUE, v |-> 0]

LimitValues == {Limitless} \cup {Limit(v) : v \in Values}

LimitValue_eq(a, b) ==
  IF a.limitless /\ b.limitless THEN TRUE
  ELSE IF ~a.limitless /\ ~b.limitless THEN a.v = b.v
  ELSE FALSE

LimitValue_partial_cmp(a, b) ==
  IF a.limitless /\ b.limitless THEN Equal
  ELSE IF ~a.limitless /\ b.limitless THEN Greater
  ELSE IF a.limitless /\ ~b.limitless THEN Less
  ELSE T_partial_cmp(a.v, b.v)

\* the comparison operators Rust derives from partial_cmp
LimitValue_lt(a, b) == LimitValue_partial_cmp(a, b) = Less
LimitValue_le(a, b) == LimitValue_partial_cmp(a, b) \in {Less, Equal}
LimitValue_gt(a, b) == LimitValue_partial_cmp(a, b) = Greater
LimitValue_ge(a, b) == LimitValue_partial_cmp(a, b) \in {Greater, Equal}

is_limitless(v) == v.limitless

\* Result<&T, Error>
Ok(x) == [ok |-> TRUE, value |-> x]
Err(e) == [ok |-> FALSE, error |-> e]
NotFoundError == "NotFoundError"

\* to_value that answers Ok for Limitless
to_value_never_failing(a) == Ok(a.v)

to_value(a) == IF ~a.limitless THEN Ok(a.v) ELSE Err(NotFoundError)

\* to_value_or(default), where default() returns d: the value returned and
\* the number of times default was called
to_value_or(a, d) ==
  IF ~a.limitless THEN [value |-> a.v, default_calls |-> 0]
  ELSE [value |-> d, default_calls |-> 1]

-----------------------------------------------------------------------------
(* interval_limit.rs *)

\* IntervalLimit::new that stores the closed argument as it is given
IntervalLimit_new_keeping_closed(closed, lower, v) ==
  [closed |-> closed,
   lower  |-> lower,
   value  |-> v]

IntervalLimit_new(closed, lower, v) ==
  [closed |-> IF is_limitless(v) THEN FALSE ELSE closed,
   lower  |-> lower,
   value  |-> v]

IntervalLimit_lower(closed, v) == IntervalLimit_new(closed, TRUE, v)
IntervalLimit_upper(closed, v) == IntervalLimit_new(closed, FALSE, v)

lower_to_ordering(l, t, f) == IF l.lower THEN t ELSE f
closed_to_ordering(l, t, f) == IF l.closed THEN t ELSE f

\* partial_cmp that does not look at closedness: two limits of one side at
\* one value are Equal
IntervalLimit_partial_cmp_ignoring_closed(a, b) ==
  IF is_limitless(a.value) /\ is_limitless(b.value) THEN
    IF a.lower = b.lower THEN Equal
    ELSE lower_to_ordering(a, Less, Greater)
  ELSE IF is_limitless(a.value) THEN
    lower_to_ordering(a, Less, Greater)
  ELSE IF is_limitless(b.value) THEN
    lower_to_ordering(b, Greater, Less)
  ELSE IF LimitValue_eq(a.value, b.value) THEN
    IF a.lower = b.lower THEN Equal
    ELSE lower_to_ordering(a, Less, Greater)
  ELSE LimitValue_partial_cmp(a.value, b.value)

\* partial_cmp with the tie-break of two upper limits at one value taken from
\* the lower-limit case: the closed upper limit below the open one
IntervalLimit_partial_cmp_upper_as_lower(a, b) ==
  IF is_limitless(a.value) /\ is_limitless(b.value) THEN
    IF a.lower = b.lower THEN Equal
    ELSE lower_to_ordering(a, Less, Greater)
  ELSE IF is_limitless(a.value) THEN
    lower_to_ordering(a, Less, Greater)
  ELSE IF is_limitless(b.value) THEN
    lower_to_ordering(b, Greater, Less)
  ELSE IF LimitValue_eq(a.value, b.value) THEN
    IF a.lower = b.lower THEN
      IF a.closed # b.closed THEN closed_to_ordering(a, Less, Greater)
      ELSE Equal
    ELSE lower_to_ordering(a, Less, Greater)
  ELSE LimitValue_partial_cmp(a.value, b.value)

IntervalLimit_partial_cmp(a, b) ==
  IF is_limitless(a.value) /\ is_limitless(b.value) THEN
    IF a.lower = b.lower THEN Equal
    ELSE lower_to_ordering(a, Less, Greater)
  ELSE IF is_limitless(a.value) THEN
    lower_to_ordering(a, Less, Greater)
  ELSE IF is_limitless(b.value) THEN
    lower_to_ordering(b, Greater, Less)
  ELSE IF LimitValue_eq(a.value, b.value) THEN
    IF a.lower /\ b.lower THEN
      IF a.closed # b.closed THEN closed_to_ordering(a, Less, Greater)
      ELSE Equal
    ELSE IF ~a.lower /\ ~b.lower THEN
      IF a.closed # b.closed THEN closed_to_ordering(a, Greater, Less)
      ELSE Equal
    ELSE lower_to_ordering(a, Less, Greater)
  ELSE LimitValue_partial_cmp(a.value, b.value)

IntervalLimit_eq(a, b) == IntervalLimit_partial_cmp(a, b) = Equal
IntervalLimit_le(a, b) == IntervalLimit_partial_cmp(a, b) \in {Less, Equal}

limit_is_closed(l) == l.closed
limit_is_open(l) == ~l.closed
is_lower(l) == l.lower
is_upper(l) == ~l.lower
get_value(l) == l.value
infinity(l) == l.value.limitless

\* slice::sort_by(|a, b| a.partial_cmp(b).unwrap()): a stable sort, which
\* for the short slices of the model is an insertion sort.
RECURSIVE insert_limit(_, _)
insert_limit(sorted, x) ==
  IF sorted = <<>> THEN <<x>>
  ELSE LET last == sorted[Len(sorted)] IN
    IF IntervalLimit_partial_cmp(x, last) = Less
    THEN Append(insert_limit(SubSeq(sorted, 1, Len(sorted) - 1), x), last)
    ELSE Append(sorted, x)

RECURSIVE sort_limits(_)
sort_limits(list) ==
  IF list = <<>> THEN <<>>
  ELSE insert_limit(sort_limits(SubSeq(list, 1, Len(list) - 1)), list[Len(list)])

-----------------------------------------------------------------------------
(* interval.rs *)

\* the unwinding of a panic!, in place of the value a call would return
Panic == [panic |-> TRUE]

\* no value: the call does not return a value of this type
Nothing == [nothing |-> TRUE]

upper_limit(i) == get_value(i.upper)
lower_limit(i) == get_value(i.lower)

has_upper_limit(i) == ~upper_limit(i).limitless
has_lower_limit(i) == ~lower_limit(i).limitless

includes_upper_limit(i) == limit_is_closed(i.upper)
includes_lower_limit(i) == limit_is_closed(i.lower)

\* the check with the bounds compared as bare LimitValues, where Limitless is
\* below every Limit, instead of as IntervalLimits
check_lower_is_less_than_or_equal_upper_by_value(lower, upper) ==
  is_lower(lower) /\ is_upper(upper)
    /\ LimitValue_le(get_value(lower), get_value(upper))

check_lower_is_less_than_or_equal_upper(lower, upper) ==
  is_lower(lower) /\ is_upper(upper) /\ IntervalLimit_le(lower, upper)

\* Interval::new that keeps a half-open pair of equal limits as it is given
Interval_new_keeping_limits(lower, upper) ==
  IF ~check_lower_is_less_than_or_equal_upper(lower, upper) THEN Panic
  ELSE [lower |-> lower, upper |-> upper]

Interval_new(lower, upper) ==
  IF ~check_lower_is_less_than_or_equal_upper(lower, upper) THEN Panic
  ELSE
    LET normalise == /\ ~infinity(upper)
                     /\ ~infinity(lower)
                     /\ LimitValue_eq(get_value(upper), get_value(lower))
                     /\ (limit_is_open(lower) # limit_is_open(upper))
        l == IF normalise /\ limit_is_open(lower)
             THEN IntervalLimit_lower(TRUE, get_value(lower)) ELSE lower
        u == IF normalise /\ limit_is_open(upper)
             THEN IntervalLimit_upper(TRUE, get_value(upper)) ELSE upper
    IN [lower |-> l, upper |-> u]

new_with(lower, is_lower_closed, upper, is_upper_closed) ==
  Interval_new(IntervalLimit_lower(is_lower_closed, lower),
               IntervalLimit_upper(is_upper_closed, upper))

\* new_of_same_type that stores the two limits as they are given, without
\* the check and the single-point rule of Interval::new
new_of_same_type_storing_limits(i, lower, lower_closed, upper, upper_closed) ==
  [lower |-> IntervalLimit_lower(lower_closed, lower),
   upper |-> IntervalLimit_upper(upper_closed, upper)]

new_of_same_type(i, lower, lower_closed, upper, upper_closed) ==
  new_with(lower, lower_closed, upper, upper_closed)

over(lower, lower_included, upper, upper_included) ==
  new_with(lower, lower_included, upper, upper_included)
closed(lower, upper) == new_with(lower, TRUE, upper, TRUE)
open(lower, upper) == new_with(lower, FALSE, upper, FALSE)
and_more(lower) == closed(lower, Limitless)
more_than(lower) == open(lower, Limitless)
under(upper) == open(Limitless, upper)
up_to(upper) == closed(Limitless, upper)
single_element(element) == closed(element, element)

is_open(i) == ~includes_lower_limit(i) /\ ~includes_upper_limit(i)
is_closed(i) == includes_upper_limit(i) /\ includes_lower_limit(i)

is_empty(i) ==
  IF upper_limit(i).limitless /\ lower_limit(i).limitless THEN FALSE
  ELSE is_open(i) /\ LimitValue_eq(upper_limit(i), lower_limit(i))

is_single_element(i) ==
  IF ~has_upper_limit(i) THEN FALSE
  ELSE IF ~has_lower_limit(i) THEN FALSE
  ELSE LimitValue_eq(upper_limit(i), lower_limit(i)) /\ ~is_empty(i)

\* equality that only compares the limits
Interval_eq_by_limits(a, b) ==
  IntervalLimit_eq(a.upper, b.upper) /\ IntervalLimit_eq(a.lower, b.lower)

Interval_eq(a, b) ==
  IF is_empty(a) /\ is_empty(b) THEN TRUE
  ELSE IF is_empty(a) # is_empty(b) THEN FALSE
  ELSE IF is_single_element(a) /\ is_single_element(b)
    THEN LimitValue_eq(lower_limit(a), lower_limit(b))
  ELSE IF is_single_element(a) # is_single_element(b) THEN FALSE
  ELSE IntervalLimit_eq(a.upper, b.upper) /\ IntervalLimit_eq(a.lower, b.lower)

\* is_below that takes the upper limit as excluded whether it is closed or not
is_below_ignoring_closed(i, v) ==
  IF ~has_upper_limit(i) THEN FALSE
  ELSE LimitValue_le(upper_limit(i), v)

is_below(i, v) ==
  IF ~has_upper_limit(i) THEN FALSE
  ELSE \/ LimitValue_lt(upper_limit(i), v)
       \/ LimitValue_eq(upper_limit(i), v) /\ ~includes_upper_limit(i)

is_above(i, v) ==
  IF ~has_lower_limit(i) THEN FALSE
  ELSE \/ LimitValue_gt(lower_limit(i), v)
       \/ LimitValue_eq(lower_limit(i), v) /\ ~includes_lower_limit(i)

includes(i, v) == ~is_below(i, v) /\ ~is_above(i, v)

covers(a, b) ==
  LET lower_pass == \/ includes(a, lower_limit(b))
                    \/ /\ LimitValue_eq(lower_limit(a), lower_limit(b))
                       /\ ~includes_lower_limit(b)
      upper_pass == \/ includes(a, upper_limit(b))
                    \/ /\ LimitValue_eq(upper_limit(a), upper_limit(b))
                       /\ ~includes_upper_limit(b)
  IN lower_pass /\ upper_pass

empty_of_same_type(i) ==
  new_of_same_type(i, lower_limit(i), FALSE, lower_limit(i), FALSE)

equal_both_limitless(me, your) == me.limitless /\ your.limitless

greater_of_lower_limits(a, b) ==
  IF LimitValue_eq(lower_limit(a), Limitless) THEN lower_limit(b)
  ELSE IF LimitValue_eq(lower_limit(b), Limitless) THEN lower_limit(a)
  ELSE IF LimitValue_ge(lower_limit(a), lower_limit(b)) THEN lower_limit(a)
  ELSE lower_limit(b)

lesser_of_upper_limits(a, b) ==
  IF LimitValue_eq(upper_limit(a), Limitless) THEN upper_limit(b)
  ELSE IF LimitValue_eq(upper_limit(b), Limitless) THEN upper_limit(a)
  ELSE IF LimitValue_le(upper_limit(a), upper_limit(b)) THEN upper_limit(a)
  ELSE upper_limit(b)

greater_of_lower_included_in_intersection(a, b) ==
  LET limit == greater_of_lower_limits(a, b)
  IN includes(a, limit) /\ includes(b, limit)

lesser_of_upper_included_in_intersection(a, b) ==
  LET limit == lesser_of_upper_limits(a, b)
  IN includes(a, limit) /\ includes(b, limit)

intersect(a, b) ==
  LET intersect_lower_bound == greater_of_lower_limits(a, b)
      intersect_upper_bound == lesser_of_upper_limits(a, b)
  IN IF LimitValue_gt(intersect_lower_bound, intersect_upper_bound)
     THEN empty_of_same_type(a)
     ELSE new_of_same_type(a,
            intersect_lower_bound,
            greater_of_lower_included_in_intersection(a, b),
            intersect_upper_bound,
            lesser_of_upper_included_in_intersection(a, b))

intersects(a, b) ==
  IF equal_both_limitless(upper_limit(a), upper_limit(b)) THEN TRUE
  ELSE IF equal_both_limitless(lower_limit(a), upper_limit(a)) THEN TRUE
  ELSE
    LET c == LimitValue_partial_cmp(greater_of_lower_limits(a, b),
                                    lesser_of_upper_limits(a, b))
    IN IF c = Less THEN TRUE
       ELSE IF c = Greater THEN FALSE
       ELSE /\ greater_of_lower_included_in_intersection(a, b)
            /\ lesser_of_upper_included_in_intersection(a, b)

greater_of_lower_included_in_union(a, b) ==
  LET limit == greater_of_lower_limits(a, b)
  IN includes(a, limit) \/ includes(b, limit)

\* the union helper with the && of its intersection twin
lesser_of_upper_included_in_union_as_intersection(a, b) ==
  LET limit == lesser_of_upper_limits(a, b)
  IN includes(a, limit) /\ includes(b, limit)

lesser_of_upper_included_in_union(a, b) ==
  LET limit == lesser_of_upper_limits(a, b)
  IN includes(a, limit) \/ includes(b, limit)

\* Interval::gap is called by IntervalSeq::gap and by the tests, but its
\* body is not part of the sources; it is taken from the documentation:
\* empty of the same type when the intervals intersect, otherwise from the
\* lesser upper limit to the greater lower limit, an end being closed when
\* neither interval includes it.
gap(a, b) ==
  IF intersects(a, b) THEN empty_of_same_type(a)
  ELSE new_of_same_type(a,
         lesser_of_upper_limits(a, b),
         ~lesser_of_upper_included_in_union(a, b),
         greater_of_lower_limits(a, b),
         ~greater_of_lower_included_in_union(a, b))

\* Option<Interval<T>>: Nothing stands for None, an interval for Some
left_complement_relative_to(a, b) ==
  IF LimitValue_partial_cmp(lower_limit(a), lower_limit(b)) = Less THEN Nothing
  ELSE new_of_same_type(a,
         lower_limit(b),
         includes_lower_limit(b),
         lower_limit(a),
         ~includes_lower_limit(a))

right_complement_relative_to(a, b) ==
  IF LimitValue_partial_cmp(upper_limit(a), upper_limit(b)) = Greater THEN Nothing
  ELSE new_of_same_type(a,
         upper_limit(a),
         ~includes_upper_limit(a),
         upper_limit(b),
         includes_upper_limit(b))

\* complement_relative_to that returns the receiver when nothing intersects
complement_relative_to_returning_self(a, b) ==
  IF ~intersects(a, b) THEN <<a>>
  ELSE
    LET left == left_complement_relative_to(a, b)
        right == right_complement_relative_to(a, b)
    IN (IF left # Nothing THEN <<left>> ELSE <<>>)
         \o (IF right # Nothing THEN <<right>> ELSE <<>>)

\* the Vec the call returns; a piece is Panic when its construction panics
complement_relative_to(a, b) ==
  IF ~intersects(a, b) THEN <<b>>
  ELSE
    LET left == left_complement_relative_to(a, b)
        right == right_complement_relative_to(a, b)
    IN (IF left # Nothing THEN <<left>> ELSE <<>>)
         \o (IF right # Nothing THEN <<right>> ELSE <<>>)

-----------------------------------------------------------------------------
(* interval_seq.rs *)

UpperLower(inverse_lower, inverse_upper) ==
  [kind |-> "UpperLower", inverse_lower |-> inverse_lower,
   inverse_upper |-> inverse_upper]
LowerUpper(inverse_lower, inverse_upper) ==
  [kind |-> "LowerUpper", inverse_lower |-> inverse_lower,
   inverse_upper |-> inverse_upper]

\* the unwinding of a panic!, in place of an Ordering
PanicOrdering == "panic"

\* Ordering as i8
as_i8(o) == IF o = Less THEN -1 ELSE IF o = Equal THEN 0 ELSE 1

to_ordering(n) ==
  IF n = -1 THEN Less
  ELSE IF n = 0 THEN Equal
  ELSE IF n = 1 THEN Greater
  ELSE PanicOrdering

\* lower_factor that takes no notice of inverse_lower
lower_factor_ignoring_inverse(ord) == 1

lower_factor(ord) == IF ord.inverse_lower THEN -1 ELSE 1

upper_factor(ord) == IF ord.inverse_upper THEN -1 ELSE 1

compare(ord, e1, e2) ==
  IF ord.kind = "UpperLower" THEN
    IF is_empty(e1) /\ is_empty(e2) THEN Equal
    ELSE IF is_empty(e1) THEN Less
    ELSE IF is_empty(e2) THEN Greater
    ELSE
      LET upper_comparance == IntervalLimit_partial_cmp(e1.upper, e2.upper)
          lower_comparance == IntervalLimit_partial_cmp(e1.lower, e2.lower)
      IN IF upper_comparance # Equal
         THEN to_ordering(as_i8(upper_comparance) * upper_factor(ord))
         ELSE to_ordering(as_i8(lower_comparance) * lower_factor(ord))
  ELSE
    IF is_empty(e1) /\ is_empty(e2) THEN Equal
    ELSE IF is_empty(e1) THEN Greater
    ELSE IF is_empty(e2) THEN Less
    ELSE
      LET upper_comparance == IntervalLimit_partial_cmp(e1.upper, e2.upper)
          lower_comparance == IntervalLimit_partial_cmp(e1.lower, e2.lower)
      IN IF upper_comparance # Equal
         THEN to_ordering(as_i8(upper_comparance) + lower_factor(ord))
         ELSE to_ordering(as_i8(lower_comparance) * upper_factor(ord))

\* the ordered field IntervalSeq::new sets; no other code sets it
ordered == UpperLower(TRUE, FALSE)

\* l.sort_by(|a, b| self.ordered.compare(a, b)): a stable sort, which for
\* the short slices of the model is an insertion sort.  compare does not
\* panic for an UpperLower policy.
\* the step of a sort that leaves every interval where it was pushed
RECURSIVE insert_interval_at_end(_, _)
insert_interval_at_end(sorted, x) == Append(sorted, x)

\* the step of a sort that drops an interval equal in order to the last one
RECURSIVE insert_interval_dropping_equal(_, _)
insert_interval_dropping_equal(sorted, x) ==
  IF sorted = <<>> THEN <<x>>
  ELSE LET last == sorted[Len(sorted)] IN
    IF compare(ordered, x, last) = Equal THEN sorted
    ELSE IF compare(ordered, x, last) = Less
    THEN Append(insert_interval_dropping_equal(
                  SubSeq(sorted, 1, Len(sorted) - 1), x), last)
    ELSE Append(sorted, x)

RECURSIVE insert_interval(_, _)
insert_interval(sorted, x) ==
  IF sorted = <<>> THEN <<x>>
  ELSE LET last == sorted[Len(sorted)] IN
    IF compare(ordered, x, last) = Less
    THEN Append(insert_interval(SubSeq(sorted, 1, Len(sorted) - 1), x), last)
    ELSE Append(sorted, x)

RECURSIVE sort_intervals(_)
sort_intervals(list) ==
  IF list = <<>> THEN <<>>
  ELSE insert_interval(sort_intervals(SubSeq(list, 1, Len(list) - 1)),
                       list[Len(list)])

\* uppers.sort_by(|a, b| b.partial_cmp(&a).unwrap())
RECURSIVE insert_limit_descending(_, _)
insert_limit_descending(sorted, x) ==
  IF sorted = <<>> THEN <<x>>
  ELSE LET last == sorted[Len(sorted)] IN
    IF IntervalLimit_partial_cmp(last, x) = Less
    THEN Append(insert_limit_descending(SubSeq(sorted, 1, Len(sorted) - 1), x), last)
    ELSE Append(sorted, x)

RECURSIVE sort_limits_descending(_)
sort_limits_descending(list) ==
  IF list = <<>> THEN <<>>
  ELSE insert_limit_descending(
         sort_limits_descending(SubSeq(list, 1, Len(list) - 1)),
         list[Len(list)])

\* extent that answers the whole line for a sequence without intervals
extent_of_nothing_as_whole_line(list) ==
  IF list = <<>> THEN new_with(Limitless, FALSE, Limitless, FALSE)
  ELSE
    LET first == list[1] IN
    IF Len(list) = 1 THEN first
    ELSE
      LET lowers == sort_limits([k \in 1..Len(list) |-> list[k].lower])
          lower == lowers[1]
          uppers == sort_limits_descending([k \in 1..Len(list) |-> list[k].upper])
          upper == uppers[1]
      IN new_of_same_type(first, get_value(lower), limit_is_closed(lower),
                          get_value(upper), limit_is_closed(upper))

\* extent that takes the least of the upper limits
extent_with_least_upper(list) ==
  IF list = <<>> THEN Panic
  ELSE
    LET first == list[1] IN
    IF Len(list) = 1 THEN first
    ELSE
      LET lowers == sort_limits([k \in 1..Len(list) |-> list[k].lower])
          lower == lowers[1]
          uppers == sort_limits([k \in 1..Len(list) |-> list[k].upper])
          upper == uppers[1]
      IN new_of_same_type(first, get_value(lower), limit_is_closed(lower),
                          get_value(upper), limit_is_closed(upper))

extent(list) ==
  IF list = <<>> THEN Panic
  ELSE
    LET first == list[1] IN
    IF Len(list) = 1 THEN first
    ELSE
      LET lowers == sort_limits([k \in 1..Len(list) |-> list[k].lower])
          lower == lowers[1]
          uppers == sort_limits_descending([k \in 1..Len(list) |-> list[k].upper])
          upper == uppers[1]
      IN new_of_same_type(first, get_value(lower), limit_is_closed(lower),
                          get_value(upper), limit_is_closed(upper))

-----------------------------------------------------------------------------
(* Display.  A String is the sequence of its characters. *)

\* i32's Display: the decimal digits of a value that is not negative
RECURSIVE T_to_string(_)
T_to_string(n) ==
  LET digit(d) == <<"0", "1", "2", "3", "4", "5", "6", "7", "8", "9">>[d + 1]
  IN IF n < 10 THEN <<digit(n)>>
     ELSE T_to_string(n \div 10) \o <<digit(n % 10)>>

\* limit_value.rs: write!(f, "Limit({})", a) and write!(f, "Limitless")
LimitValue_to_string(a) ==
  IF a.limitless THEN <<"L", "i", "m", "i", "t", "l", "e", "s", "s">>
  ELSE <<"L", "i", "m", "i", "t", "(">> \o T_to_string(a.v) \o <<")">>

\* Display for Interval
Interval_to_string(i) ==
  IF is_empty(i) THEN <<"(", ")">>
  ELSE IF is_single_element(i)
    THEN <<"(">> \o LimitValue_to_string(lower_limit(i)) \o <<")">>
  ELSE
    LET s1 == IF includes_lower_limit(i) THEN <<"[">> ELSE <<"(">>
        s2 == s1 \o (IF has_lower_limit(i)
                     THEN LimitValue_to_string(lower_limit(i))
                     ELSE <<"I", "n", "f", "i", "n", "i", "t", "y">>)
        s3 == s2 \o <<",", " ">>
        s4 == s3 \o (IF has_upper_limit(i)
                     THEN LimitValue_to_string(upper_limit(i))
                     ELSE <<"I", "n", "f", "i", "n", "i", "t", "y">>)
        str == s4 \o (IF includes_upper_limit(i) THEN <<"]">> ELSE <<")">>)
    IN <<"(">> \o str \o <<")">>

-----------------------------------------------------------------------------
(* The calls a client makes.  Every call records its name and its result   *)
(* and clears the results of the call before it.                           *)

all == new_with(Limitless, TRUE, Limitless, TRUE)

\* every Interval the constructors can build
Intervals ==
  {new_with(l, lc, u, uc) :
     l \in LimitValues, lc \in BOOLEAN, u \in LimitValues, uc \in BOOLEAN}
  \ {Panic}

\* left.gap(right) and left.intersect(right) for every pair of intervals,
\* worked out once
gap_table == [a \in Intervals |-> [b \in Intervals |-> gap(a, b)]]
intersect_table == [a \in Intervals |-> [b \in Intervals |-> intersect(a, b)]]

\* the for loop of IntervalSeq::gap without its test of is_empty
RECURSIVE gap_values_keeping_empty(_, _)
gap_values_keeping_empty(list, i) ==
  IF i > Len(list) THEN <<>>
  ELSE
    LET left == list[i - 1]
        right == list[i]
        g == gap_table[left][right]
    IN IF g = Panic THEN <<Panic>>
       ELSE <<g>> \o gap_values_keeping_empty(list, i + 1)

\* the for loop of IntervalSeq::gap from index i on: the non-empty gaps of
\* the neighbours, in the order they are pushed
RECURSIVE gap_values(_, _)
gap_values(list, i) ==
  IF i > Len(list) THEN <<>>
  ELSE
    LET left == list[i - 1]
        right == list[i]
        g == gap_table[left][right]
    IN IF g = Panic THEN <<Panic>>
       ELSE (IF ~is_empty(g) THEN <<g>> ELSE <<>>) \o gap_values(list, i + 1)

\* the intervals of the IntervalSeq that IntervalSeq::gap returns
IntervalSeq_gap(list) ==
  IF Len(list) < 2 THEN <<>>
  ELSE gap_values(list, 2)

\* the for loop of IntervalSeq::intersections from index i on
RECURSIVE intersection_values(_, _)
intersection_values(list, i) ==
  IF i > Len(list) THEN <<>>
  ELSE
    LET left == list[i - 1]
        right == list[i]
        g == intersect_table[left][right]
    IN IF g = Panic THEN <<Panic>>
       ELSE (IF ~is_empty(g) THEN <<g>> ELSE <<>>)
              \o intersection_values(list, i + 1)

\* the intervals of the IntervalSeq that IntervalSeq::intersections returns
IntervalSeq_intersections(list) ==
  IF Len(list) < 2 THEN <<>>
  ELSE intersection_values(list, 2)

IntervalSeq_len(list) == Len(list)

\* Option<&Interval<T>>: Nothing stands for None; idx counts from 0
IntervalSeq_get(list, i) == IF i < Len(list) THEN list[i + 1] ELSE Nothing

IntervalSeq_is_empty(list) == list = <<>>

NoCall ==
  /\ limits = <<>>
  /\ idx = <<0, 0>>
  /\ value = Limitless
  /\ args = Nothing
  /\ op = "init"
  /\ ret_ord = None
  /\ ret_bool = FALSE
  /\ ret_interval = Nothing
  /\ panicked = FALSE
  /\ intervals = <<>>
  /\ ret_seq = <<>>
  /\ ret_len = 0
  /\ ret_string = <<>>
  /\ ret_value = Nothing

(* SpecLimit: a list of IntervalLimit that is compared and sorted *)

InitLimit == NoCall /\ self = all /\ other = all

\* list.push(IntervalLimit::new(closed, lower, value))
PushLimit(c, lo, v) ==
  /\ Len(limits) < MaxLen
  /\ limits' = Append(limits, IntervalLimit_new(c, lo, v))
  /\ idx' = <<0, 0>>
  /\ op' = "push"
  /\ ret_ord' = None
  /\ UNCHANGED interval_vars

\* list[i].partial_cmp(&list[j])
PartialCmp(i, j) ==
  /\ i \in 1..Len(limits)
  /\ j \in 1..Len(limits)
  /\ i < j
  /\ idx' = <<i, j>>
  /\ op' = "partial_cmp"
  /\ ret_ord' = IntervalLimit_partial_cmp(limits[i], limits[j])
  /\ UNCHANGED limits
  /\ UNCHANGED interval_vars

\* list.sort_by(|a, b| a.partial_cmp(b).unwrap())
SortLimits ==
  /\ limits' = sort_limits(limits)
  /\ idx' = <<0, 0>>
  /\ op' = "sort"
  /\ ret_ord' = None
  /\ UNCHANGED interval_vars

NextLimit ==
  \/ \E c \in BOOLEAN, lo \in BOOLEAN, v \in LimitValues : PushLimit(c, lo, v)
  \/ \E i \in 1..MaxLen, j \in 1..MaxLen : PartialCmp(i, j)
  \/ SortLimits

SpecLimit == InitLimit /\ [][NextLimit]_vars

(* SpecNew: an Interval is constructed and then queried.  args holds the  *)
(* arguments self was constructed with.  A panic unwinds the caller, so   *)
(* nothing is called on self until the next construction succeeds.        *)

InitNew == NoCall /\ self = all /\ other = all

\* let self = Interval::new_with(lower, is_lower_closed, upper, is_upper_closed)
NewWith(l, lc, u, uc) ==
  LET r == new_with(l, lc, u, uc) IN
  /\ args' = [lower |-> l, lower_closed |-> lc, upper |-> u, upper_closed |-> uc]
  /\ op' = "new_with"
  /\ panicked' = (r = Panic)
  /\ ret_interval' = r
  /\ self' = IF r # Panic THEN r ELSE self
  /\ value' = Limitless
  /\ ret_bool' = FALSE
  /\ ret_seq' = <<>>
  /\ UNCHANGED <<other, limit_vars, ret_ord, ret_string, ret_value, ret_len, intervals>>

\* self.includes(&v)
Includes(v) ==
  /\ ~panicked
  /\ value' = v
  /\ op' = "includes"
  /\ ret_bool' = includes(self, v)
  /\ ret_interval' = Nothing
  /\ ret_seq' = <<>>
  /\ UNCHANGED <<self, other, args, panicked, limit_vars, ret_ord, ret_string, ret_value, ret_len, intervals>>

NextNew ==
  \/ \E l \in LimitValues, lc \in BOOLEAN, u \in LimitValues, uc \in BOOLEAN :
       NewWith(l, lc, u, uc)
  \/ \E v \in LimitValues : Includes(v)

SpecNew == InitNew /\ [][NextNew]_vars

(* Spec: the operations on two intervals self and other, which are any    *)
(* two intervals that can be constructed                                  *)

Init == NoCall /\ self \in Intervals /\ other \in Intervals

\* self.intersect(&other)
Intersect ==
  LET r == intersect(self, other) IN
  /\ op' = "intersect"
  /\ ret_interval' = r
  /\ panicked' = (r = Panic)
  /\ ret_bool' = FALSE
  /\ value' = Limitless
  /\ ret_seq' = <<>>
  /\ UNCHANGED <<self, other, args, limit_vars, ret_ord, ret_string, ret_value, ret_len, intervals>>

\* self.intersects(&other)
Intersects ==
  /\ op' = "intersects"
  /\ ret_bool' = intersects(self, other)
  /\ ret_interval' = Nothing
  /\ panicked' = FALSE
  /\ value' = Limitless
  /\ ret_seq' = <<>>
  /\ UNCHANGED <<self, other, args, limit_vars, ret_ord, ret_string, ret_value, ret_len, intervals>>

\* self.covers(&other)
Covers ==
  /\ op' = "covers"
  /\ ret_bool' = covers(self, other)
  /\ ret_interval' = Nothing
  /\ panicked' = FALSE
  /\ value' = Limitless
  /\ ret_seq' = <<>>
  /\ UNCHANGED <<self, other, args, limit_vars, ret_ord, ret_string, ret_value, ret_len, intervals>>

\* self.complement_relative_to(&other)
ComplementRelativeTo ==
  LET r == complement_relative_to(self, other) IN
  /\ op' = "complement_relative_to"
  /\ panicked' = (\E k \in 1..Len(r) : r[k] = Panic)
  /\ ret_seq' = IF \E k \in 1..Len(r) : r[k] = Panic THEN <<>> ELSE r
  /\ ret_interval' = Nothing
  /\ ret_bool' = FALSE
  /\ value' = Limitless
  /\ UNCHANGED <<self, other, args, limit_vars, ret_ord, ret_string, ret_value, ret_len, intervals>>

\* self.gap(&other)
Gap ==
  LET r == gap(self, other) IN
  /\ op' = "gap"
  /\ ret_interval' = r
  /\ panicked' = (r = Panic)
  /\ ret_bool' = FALSE
  /\ value' = Limitless
  /\ ret_seq' = <<>>
  /\ UNCHANGED <<self, other, args, limit_vars, ret_ord, ret_string, ret_value, ret_len, intervals>>

\* self.empty_of_same_type()
EmptyOfSameType ==
  LET r == empty_of_same_type(self) IN
  /\ op' = "empty_of_same_type"
  /\ ret_interval' = r
  /\ panicked' = (r = Panic)
  /\ ret_bool' = FALSE
  /\ value' = Limitless
  /\ ret_seq' = <<>>
  /\ UNCHANGED <<self, other, args, limit_vars, ret_ord, ret_string, ret_value, ret_len, intervals>>

\* self == other
Eq ==
  /\ op' = "eq"
  /\ ret_bool' = Interval_eq(self, other)
  /\ ret_interval' = Nothing
  /\ panicked' = FALSE
  /\ value' = Limitless
  /\ ret_seq' = <<>>
  /\ UNCHANGED <<self, other, args, limit_vars, ret_ord, ret_string, ret_value, ret_len, intervals>>

Next ==
  \/ \E v \in LimitValues : Includes(v)
  \/ Intersect
  \/ Intersects
  \/ Covers
  \/ ComplementRelativeTo
  \/ Gap
  \/ EmptyOfSameType
  \/ Eq

Spec == Init /\ [][Next]_vars

(* SpecSeq: an IntervalSeq is built with IntervalSeq::empty(), intervals  *)
(* are appended to it, and it is iterated and asked for its extent.       *)

\* the intervals that are appended
SeqIntervals ==
  {i \in Intervals :
     /\ has_lower_limit(i) => lower_limit(i).v <= MaxSeqVal
     /\ has_upper_limit(i) => upper_limit(i).v <= MaxSeqVal}

InitSeq == NoCall /\ self = all /\ other = all

\* interval_sequence.append(&i)
AppendInterval(i) ==
  /\ Len(intervals) < MaxSeqLen
  /\ intervals' = Append(intervals, i)
  /\ other' = i
  /\ op' = "append"
  /\ ret_seq' = <<>>
  /\ ret_interval' = Nothing
  /\ panicked' = FALSE
  /\ ret_bool' = FALSE
  /\ ret_len' = 0
  /\ UNCHANGED <<self, value, args, limit_vars, ret_ord, ret_string, ret_value>>

\* interval_sequence.iter(), and the intervals the iterator then yields
Iter ==
  LET l == sort_intervals(intervals) IN
  /\ intervals' = l
  /\ ret_seq' = l
  /\ op' = "iter"
  /\ ret_interval' = Nothing
  /\ panicked' = FALSE
  /\ ret_bool' = FALSE
  /\ ret_len' = 0
  /\ UNCHANGED <<self, other, value, args, limit_vars, ret_ord, ret_string, ret_value>>

\* interval_sequence.extent()
Extent ==
  LET r == extent(intervals) IN
  /\ op' = "extent"
  /\ ret_interval' = r
  /\ panicked' = (r = Panic)
  /\ ret_seq' = <<>>
  /\ ret_bool' = FALSE
  /\ ret_len' = 0
  /\ UNCHANGED <<self, other, value, args, limit_vars, ret_ord, ret_string, ret_value, intervals>>

NextSeq ==
  \/ \E i \in SeqIntervals : AppendInterval(i)
  \/ Iter
  \/ Extent

SpecSeq == InitSeq /\ [][NextSeq]_vars

(* SpecSeqGap: intervals are appended to an IntervalSeq, which is         *)
(* iterated and asked for the gaps of its neighbours.                     *)

\* interval_sequence.gap(), and the intervals of the IntervalSeq it returns
SeqGap ==
  LET r == IntervalSeq_gap(intervals)
      p == \E k \in 1..Len(r) : r[k] = Panic
  IN
  /\ op' = "gap"
  /\ panicked' = p
  /\ ret_seq' = IF p THEN <<>> ELSE r
  /\ ret_interval' = Nothing
  /\ ret_bool' = FALSE
  /\ ret_len' = 0
  /\ UNCHANGED <<self, other, value, args, limit_vars, ret_ord, ret_string, ret_value, intervals>>

NextSeqGap ==
  \/ \E i \in SeqIntervals : AppendInterval(i)
  \/ Iter
  \/ SeqGap

SpecSeqGap == InitSeq /\ [][NextSeqGap]_vars

(* SpecSeqOps: every operation of IntervalSeq, in any order               *)

\* interval_sequence.intersections()
Intersections ==
  LET r == IntervalSeq_intersections(intervals)
      p == \E k \in 1..Len(r) : r[k] = Panic
  IN
  /\ op' = "intersections"
  /\ panicked' = p
  /\ ret_seq' = IF p THEN <<>> ELSE r
  /\ ret_interval' = Nothing
  /\ ret_bool' = FALSE
  /\ ret_len' = 0
  /\ UNCHANGED <<self, other, value, args, limit_vars, ret_ord, ret_string, ret_value, intervals>>

\* interval_sequence.len()
SeqLen ==
  /\ op' = "len"
  /\ ret_len' = IntervalSeq_len(intervals)
  /\ panicked' = FALSE
  /\ ret_seq' = <<>>
  /\ ret_interval' = Nothing
  /\ ret_bool' = FALSE
  /\ UNCHANGED <<self, other, value, args, limit_vars, ret_ord, ret_string, ret_value, intervals>>

\* interval_sequence.get(i)
Get(i) ==
  /\ op' = "get"
  /\ ret_interval' = IntervalSeq_get(intervals, i)
  /\ panicked' = FALSE
  /\ ret_seq' = <<>>
  /\ ret_bool' = FALSE
  /\ ret_len' = 0
  /\ UNCHANGED <<self, other, value, args, limit_vars, ret_ord, ret_string, ret_value, intervals>>

\* interval_sequence.is_empty()
SeqIsEmpty ==
  /\ op' = "is_empty"
  /\ ret_bool' = IntervalSeq_is_empty(intervals)
  /\ panicked' = FALSE
  /\ ret_seq' = <<>>
  /\ ret_interval' = Nothing
  /\ ret_len' = 0
  /\ UNCHANGED <<self, other, value, args, limit_vars, ret_ord, ret_string, ret_value, intervals>>

NextSeqOps ==
  \/ \E i \in SeqIntervals : Len(intervals) < MaxOpsLen /\ AppendInterval(i)
  \/ Iter
  \/ Extent
  \/ SeqGap
  \/ Intersections
  \/ SeqLen
  \/ \E i \in 0..MaxOpsLen : Get(i)
  \/ SeqIsEmpty

SpecSeqOps == InitSeq /\ [][NextSeqOps]_vars

(* SpecDisplay: an interval is rendered                                   *)

\* self.to_string()
Fmt ==
  /\ op' = "to_string"
  /\ ret_string' = Interval_to_string(self)
  /\ panicked' = FALSE
  /\ ret_interval' = Nothing
  /\ ret_bool' = FALSE
  /\ value' = Limitless
  /\ ret_seq' = <<>>
  /\ UNCHANGED <<self, other, args, limit_vars, ret_ord, ret_len, ret_value,
                 intervals>>

NextDisplay == Fmt

SpecDisplay == Init /\ [][NextDisplay]_vars

(* SpecValue: the value of a bound of an interval is asked for            *)

\* the bounds of self and other
Bounds ==
  {lower_limit(self), upper_limit(self), lower_limit(other), upper_limit(other)}

\* v.to_value()
ToValue(v) ==
  /\ op' = "to_value"
  /\ value' = v
  /\ args' = Nothing
  /\ ret_value' = to_value(v)
  /\ panicked' = FALSE
  /\ UNCHANGED <<self, other, limit_vars, ret_ord, ret_bool, ret_interval,
                 ret_seq, ret_len, ret_string, intervals>>

\* v.to_value_or(|| &d)
ToValueOr(v, d) ==
  /\ op' = "to_value_or"
  /\ value' = v
  /\ args' = [default |-> d]
  /\ ret_value' = to_value_or(v, d)
  /\ panicked' = FALSE
  /\ UNCHANGED <<self, other, limit_vars, ret_ord, ret_bool, ret_interval,
                 ret_seq, ret_len, ret_string, intervals>>

NextValue ==
  \/ \E v \in Bounds : ToValue(v)
  \/ \E v \in Bounds, d \in Values : ToValueOr(v, d)

SpecValue == Init /\ [][NextValue]_vars

(* SpecCompare: two intervals are compared under a policy                 *)

\* every value of Ordered
Policies ==
  {UpperLower(il, iu) : il \in BOOLEAN, iu \in BOOLEAN}
    \cup {LowerUpper(il, iu) : il \in BOOLEAN, iu \in BOOLEAN}

\* ord.compare(&self, &other)
Compare(ord) ==
  LET r == compare(ord, self, other) IN
  /\ op' = "compare"
  /\ args' = ord
  /\ panicked' = (r = PanicOrdering)
  /\ ret_ord' = IF r = PanicOrdering THEN None ELSE r
  /\ UNCHANGED <<self, other, value, limit_vars, ret_bool, ret_interval,
                 ret_seq, ret_len, ret_string, ret_value, intervals>>

NextCompare == \E ord \in Policies : Compare(ord)

SpecCompare == Init /\ [][NextCompare]_vars

(* SpecResults: every operation that returns an Interval is called on  *)
(* two intervals built by new_with, and on the sequences made of them   *)

\* self.left_complement_relative_to(&other)
LeftComplementRelativeTo ==
  LET r == left_complement_relative_to(self, other) IN
  /\ op' = "left_complement_relative_to"
  /\ ret_interval' = r
  /\ panicked' = (r = Panic)
  /\ ret_bool' = FALSE
  /\ value' = Limitless
  /\ ret_seq' = <<>>
  /\ UNCHANGED <<self, other, args, limit_vars, ret_ord, ret_string,
                 ret_value, ret_len, intervals>>

\* self.right_complement_relative_to(&other)
RightComplementRelativeTo ==
  LET r == right_complement_relative_to(self, other) IN
  /\ op' = "right_complement_relative_to"
  /\ ret_interval' = r
  /\ panicked' = (r = Panic)
  /\ ret_bool' = FALSE
  /\ value' = Limitless
  /\ ret_seq' = <<>>
  /\ UNCHANGED <<self, other, args, limit_vars, ret_ord, ret_string,
                 ret_value, ret_len, intervals>>

\* IntervalSeq::new(&[self]) and IntervalSeq::new(&[self, other])
NewSeq(n) ==
  /\ intervals' = IF n = 1 THEN <<self>> ELSE <<self, other>>
  /\ op' = "new_seq"
  /\ ret_interval' = Nothing
  /\ panicked' = FALSE
  /\ ret_bool' = FALSE
  /\ value' = Limitless
  /\ ret_seq' = <<>>
  /\ UNCHANGED <<self, other, args, limit_vars, ret_ord, ret_string,
                 ret_value, ret_len>>

NextResults ==
  \/ Intersect
  \/ EmptyOfSameType
  \/ LeftComplementRelativeTo
  \/ RightComplementRelativeTo
  \/ ComplementRelativeTo
  \/ \E n \in 1..2 : NewSeq(n)
  \/ Extent

SpecResults == Init /\ [][NextResults]_vars

-----------------------------------------------------------------------------
(* Properties *)

\* The place of a limit in the order the documentation describes: the
\* unbounded lower limit below everything, the unbounded upper limit above
\* everything, finite limits by value and, at one value,
\* closed-lower < open-lower < open-upper < closed-upper.
Rank(l) ==
  IF l.value.limitless THEN (IF l.lower THEN -1 ELSE 4 * (MaxVal + 1))
  ELSE 4 * l.value.v
       + (IF l.lower THEN (IF l.closed THEN 0 ELSE 1)
                     ELSE (IF l.closed THEN 3 ELSE 2))

\* C1: partial_cmp of two limits is the comparison of their ranks (unbounded
\* lower lowest, unbounded upper highest, finite limits by value, and at one
\* value closed-lower < open-lower < open-upper < closed-upper), and a list
\* sorted with it is in rank order: unbounded-lower first, unbounded-upper
\* last.
C1_LimitOrder ==
  /\ op = "partial_cmp" =>
       LET ra == Rank(limits[idx[1]])
           rb == Rank(limits[idx[2]])
       IN ret_ord = (IF ra < rb THEN Less ELSE IF ra = rb THEN Equal ELSE Greater)
  /\ op = "sort" =>
       \A i \in 1..Len(limits), j \in 1..Len(limits) :
         i < j => Rank(limits[i]) <= Rank(limits[j])

\* a sorted list that holds an unbounded upper limit, a finite limit and an
\* unbounded lower limit
C1_Witness ==
  /\ op = "sort"
  /\ Len(limits) = 3
  /\ limits[1] = IntervalLimit_lower(FALSE, Limitless)
  /\ ~limits[2].value.limitless
  /\ limits[3] = IntervalLimit_upper(FALSE, Limitless)

\* C2: new_with panics exactly when both bounds are finite and lower > upper;
\* otherwise it returns an interval whose bounds are the arguments, neither
\* swapped nor clamped.
C2_ConstructionPanics ==
  op = "new_with" =>
    /\ panicked <=> /\ ~args.lower.limitless
                    /\ ~args.upper.limitless
                    /\ args.lower.v > args.upper.v
    /\ ~panicked => /\ lower_limit(ret_interval) = args.lower
                    /\ upper_limit(ret_interval) = args.upper
                    /\ self = ret_interval

\* a construction with lower > upper, which panicked
C2_Witness ==
  /\ op = "new_with"
  /\ panicked
  /\ ~args.lower.limitless
  /\ ~args.upper.limitless
  /\ args.lower.v > args.upper.v

\* C3: for a < b (or an unbounded end), over(a, ac, b, bc) includes a finite
\* v iff v is above a, or at a with ac set, and below b, or at b with bc set.
C3_Includes ==
  ( /\ op = "includes"
    /\ args # Nothing
    /\ ~value.limitless
    /\ (~args.lower.limitless /\ ~args.upper.limitless
          => args.lower.v < args.upper.v) )
  => ( ret_bool <=>
         /\ \/ args.lower.limitless
            \/ args.lower.v < value.v
            \/ args.lower.v = value.v /\ args.lower_closed
         /\ \/ args.upper.limitless
            \/ value.v < args.upper.v
            \/ value.v = args.upper.v /\ args.upper_closed )

\* the open upper bound b of [a, b) with a < b is asked for and not included
C3_Witness ==
  /\ op = "includes"
  /\ args # Nothing
  /\ ~args.lower.limitless
  /\ ~args.upper.limitless
  /\ args.lower.v < args.upper.v
  /\ args.lower_closed
  /\ ~args.upper_closed
  /\ value = args.upper
  /\ ~ret_bool

\* C4: a.intersect(b) includes a finite v iff a includes v and b includes v.
C4_IntersectIncludes ==
  op = "intersect" =>
    \A v \in Values :
      includes(ret_interval, Limit(v))
        <=> (includes(self, Limit(v)) /\ includes(other, Limit(v)))

\* C5: I.intersect(I) == I for every non-empty I.
C5_IntersectIdempotent ==
  (op = "intersect" /\ self = other /\ ~is_empty(self))
    => Interval_eq(ret_interval, self)

\* C6: I.intersect(J) == J.intersect(I).
C6_IntersectCommutes ==
  op = "intersect" => Interval_eq(ret_interval, intersect(other, self))

\* C7: I.intersects(J) == J.intersects(I).
C7_IntersectsCommutes ==
  op = "intersects" => (ret_bool = intersects(other, self))

\* C8: when a finite lower bound of one of the two intervals is larger than
\* a finite upper bound of one of them, a.intersect(b) is empty.
C8_DisjointIntersectEmpty ==
  ( /\ op = "intersect"
    /\ \E x \in {self, other}, y \in {self, other} :
         /\ has_lower_limit(x)
         /\ has_upper_limit(y)
         /\ lower_limit(x).v > upper_limit(y).v )
  => is_empty(ret_interval)

\* C9: an empty interval intersects nothing, as receiver or as argument.
C9_EmptyIntersectsNothing ==
  (op = "intersects" /\ (is_empty(self) \/ is_empty(other))) => ~ret_bool

\* C10: for non-empty a and b, a.covers(b) iff a's lower limit <= b's lower
\* limit and b's upper limit <= a's upper limit in the IntervalLimit order.
C10_Covers ==
  (op = "covers" /\ ~is_empty(self) /\ ~is_empty(other))
  => ( ret_bool <=> /\ Rank(self.lower) <= Rank(other.lower)
                    /\ Rank(other.upper) <= Rank(self.upper) )


\* C11: the pieces of self.complement_relative_to(other) together include a
\* finite value v iff other includes v and self does not: they are exactly
\* the part of other outside self.
C11_ComplementPieces ==
  op = "complement_relative_to" =>
    \A v \in Values :
      (\E k \in 1..Len(ret_seq) : includes(ret_seq[k], Limit(v)))
        <=> (includes(other, Limit(v)) /\ ~includes(self, Limit(v)))

\* C12: when self's lower limit is at or below other's and self's upper limit
\* is at or above other's, self.complement_relative_to(other) is the empty
\* list; so is the complement of a closed bounded interval relative to itself.
C12_ComplementEnclosing ==
  ( /\ op = "complement_relative_to"
    /\ Rank(self.lower) <= Rank(other.lower)
    /\ Rank(self.upper) >= Rank(other.upper) )
  => ret_seq = <<>>

\* C13: when self does not intersect other, self.complement_relative_to(other)
\* is a list of exactly one interval, which is other.
C13_ComplementDisjoint ==
  (op = "complement_relative_to" /\ ~intersects(self, other))
  => /\ ~panicked
     /\ Len(ret_seq) = 1
     /\ ret_seq[1] = other
     /\ Interval_eq(ret_seq[1], other)

\* the complement of [0,1) relative to the adjacent [1,2]
C13_Witness ==
  /\ op = "complement_relative_to"
  /\ self = over(Limit(0), TRUE, Limit(1), FALSE)
  /\ other = closed(Limit(1), Limit(2))
  /\ ~intersects(self, other)
  /\ ret_seq = <<other>>

\* C14: for bounded self and other that do not intersect, with self's upper
\* value at or below other's lower value, self.gap(other) runs from self's
\* upper value to other's lower value, and each end is closed exactly when
\* neither interval includes that end value; the gap of two closed intervals
\* is the open interval between them.
C14_Gap ==
  ( /\ op = "gap"
    /\ has_lower_limit(self) /\ has_upper_limit(self)
    /\ has_lower_limit(other) /\ has_upper_limit(other)
    /\ ~intersects(self, other)
    /\ upper_limit(self).v <= lower_limit(other).v )
  => /\ ~panicked
     /\ lower_limit(ret_interval) = upper_limit(self)
     /\ upper_limit(ret_interval) = lower_limit(other)
     /\ includes_lower_limit(ret_interval)
          <=> ~(includes(self, upper_limit(self)) \/ includes(other, upper_limit(self)))
     /\ includes_upper_limit(ret_interval)
          <=> ~(includes(self, lower_limit(other)) \/ includes(other, lower_limit(other)))
     /\ ( /\ is_closed(self) /\ is_closed(other)
          /\ upper_limit(self).v < lower_limit(other).v )
        => Interval_eq(ret_interval, open(upper_limit(self), lower_limit(other)))

\* the gap of [0,1) and (1,2) is the single point 1
C14_Witness ==
  /\ op = "gap"
  /\ self = over(Limit(0), TRUE, Limit(1), FALSE)
  /\ other = open(Limit(1), Limit(2))
  /\ ret_interval = closed(Limit(1), Limit(1))
  /\ is_single_element(ret_interval)

\* the gap of [0,1] and (1,2) is empty
C14_WitnessTouching ==
  /\ op = "gap"
  /\ self = closed(Limit(0), Limit(1))
  /\ other = open(Limit(1), Limit(2))
  /\ is_empty(ret_interval)

\* C15: when self intersects other, self.gap(other) is empty.
C15_GapOfIntersecting ==
  (op = "gap" /\ intersects(self, other)) => is_empty(ret_interval)

\* C16: empty_of_same_type of any interval, also one with no lower limit, is
\* empty, and it equals the empty interval derived from any other interval.
C16_EmptyOfSameType ==
  op = "empty_of_same_type" =>
    /\ ~panicked
    /\ is_empty(ret_interval)
    /\ Interval_eq(ret_interval, empty_of_same_type(other))

\* C17: over(v, c1, v, c2) with exactly one of c1, c2 set is the closed
\* single-element interval at v: both ends closed, it includes v and equals
\* closed(v, v).  over(v, false, v, false) is empty and differs from it.
C17_SinglePoint ==
  ( /\ op = "new_with"
    /\ ~args.lower.limitless
    /\ args.upper = args.lower )
  => /\ ~panicked
     /\ (args.lower_closed # args.upper_closed) =>
          /\ includes_lower_limit(ret_interval)
          /\ includes_upper_limit(ret_interval)
          /\ is_single_element(ret_interval)
          /\ includes(ret_interval, args.lower)
          /\ Interval_eq(ret_interval, closed(args.lower, args.lower))
          /\ Interval_eq(closed(args.lower, args.lower), ret_interval)
     /\ (~args.lower_closed /\ ~args.upper_closed) =>
          /\ is_empty(ret_interval)
          /\ ~includes(ret_interval, args.lower)
          /\ ~Interval_eq(ret_interval, closed(args.lower, args.lower))

\* over(1, true, 1, false) was constructed and is [1, 1]
C17_Witness ==
  /\ op = "new_with"
  /\ args = [lower |-> Limit(1), lower_closed |-> TRUE,
             upper |-> Limit(1), upper_closed |-> FALSE]
  /\ ret_interval = closed(Limit(1), Limit(1))
  /\ self = ret_interval

\* C18: two empty intervals are equal whatever their bound values; an empty
\* interval never equals a non-empty one; two single-element intervals are
\* equal iff their points are equal; a single-element interval never equals
\* another kind; every other pair is equal iff the lower limits and the upper
\* limits are equal as limits, so the closed and the open whole line are
\* equal.  Empty: both bounds finite and equal, both ends open.  Single:
\* both bounds finite and equal, not both ends open.
C18_Equality ==
  op = "eq" =>
    LET point(i) == /\ ~i.lower.value.limitless
                    /\ ~i.upper.value.limitless
                    /\ i.lower.value.v = i.upper.value.v
        empty(i) == point(i) /\ ~i.lower.closed /\ ~i.upper.closed
        single(i) == point(i) /\ (i.lower.closed \/ i.upper.closed)
    IN /\ (empty(self) /\ empty(other)) => ret_bool
       /\ (empty(self) # empty(other)) => ~ret_bool
       /\ (single(self) /\ single(other)) =>
            (ret_bool <=> self.lower.value.v = other.lower.value.v)
       /\ (single(self) # single(other)) => ~ret_bool
       /\ ( /\ ~empty(self) /\ ~empty(other)
            /\ ~single(self) /\ ~single(other) ) =>
            (ret_bool <=> /\ Rank(self.lower) = Rank(other.lower)
                          /\ Rank(self.upper) = Rank(other.upper))
       /\ ( /\ self = closed(Limitless, Limitless)
            /\ other = open(Limitless, Limitless) ) => ret_bool

\* the empty intervals (0,0) and (1,1) were compared and are equal
C18_Witness ==
  /\ op = "eq"
  /\ self = open(Limit(0), Limit(0))
  /\ other = open(Limit(1), Limit(1))
  /\ ret_bool

\* the closed and the open whole line were compared and are equal
C18_WitnessUnbounded ==
  /\ op = "eq"
  /\ self = closed(Limitless, Limitless)
  /\ other = open(Limitless, Limitless)
  /\ ret_bool

\* C19 as documented: iterating yields the empty intervals first, then the
\* others by upper limit ascending, and among equal upper limits by lower
\* limit ascending.
C19_IterLowerAscending ==
  op = "iter" =>
    /\ ret_seq = intervals
    /\ \A i \in 1..Len(ret_seq), j \in 1..Len(ret_seq) :
         i < j =>
           /\ is_empty(ret_seq[j]) => is_empty(ret_seq[i])
           /\ (~is_empty(ret_seq[i]) /\ ~is_empty(ret_seq[j])) =>
                /\ Rank(ret_seq[i].upper) <= Rank(ret_seq[j].upper)
                /\ Rank(ret_seq[i].upper) = Rank(ret_seq[j].upper)
                     => Rank(ret_seq[i].lower) <= Rank(ret_seq[j].lower)

\* C19: iterating an IntervalSeq built with empty() or new() yields the
\* empty intervals first, then the others by upper limit ascending, and
\* among equal upper limits by lower limit descending.
C19_IterOrder ==
  op = "iter" =>
    /\ ret_seq = intervals
    /\ \A i \in 1..Len(ret_seq), j \in 1..Len(ret_seq) :
         i < j =>
           /\ is_empty(ret_seq[j]) => is_empty(ret_seq[i])
           /\ (~is_empty(ret_seq[i]) /\ ~is_empty(ret_seq[j])) =>
                /\ Rank(ret_seq[i].upper) <= Rank(ret_seq[j].upper)
                /\ Rank(ret_seq[i].upper) = Rank(ret_seq[j].upper)
                     => Rank(ret_seq[i].lower) >= Rank(ret_seq[j].lower)

\* (-inf,0], (0,0) and [0,0] were iterated: the empty interval comes first,
\* and of the two with upper limit 0] the one with the greater lower limit
\* comes before the other
C19_Witness ==
  /\ op = "iter"
  /\ ret_seq = << open(Limit(0), Limit(0)),
                  closed(Limit(0), Limit(0)),
                  up_to(Limit(0)) >>

\* C20: the extent of two or more intervals has the least of the members'
\* lower limits and the greatest of their upper limits under the limit
\* order, whatever the order of insertion; it includes every value a member
\* includes, and it is unbounded on a side as soon as one member is.
C20_Extent ==
  (op = "extent" /\ Len(intervals) >= 2) =>
    LET n == Len(intervals) IN
    /\ ~panicked
    /\ \A k \in 1..n : Rank(ret_interval.lower) <= Rank(intervals[k].lower)
    /\ \E k \in 1..n : ret_interval.lower = intervals[k].lower
    /\ \A k \in 1..n : Rank(ret_interval.upper) >= Rank(intervals[k].upper)
    /\ \E k \in 1..n : ret_interval.upper = intervals[k].upper
    /\ \A k \in 1..n : \A v \in Values :
         includes(intervals[k], Limit(v)) => includes(ret_interval, Limit(v))
    /\ (\E k \in 1..n : ~has_lower_limit(intervals[k]))
         => ~has_lower_limit(ret_interval)
    /\ (\E k \in 1..n : ~has_upper_limit(intervals[k]))
         => ~has_upper_limit(ret_interval)

\* the extent of (0,0), [0,0] and (-inf,0) is (-inf,0]
C20_Witness ==
  /\ op = "extent"
  /\ intervals = << open(Limit(0), Limit(0)),
                    closed(Limit(0), Limit(0)),
                    under(Limit(0)) >>
  /\ ret_interval = up_to(Limit(0))

\* C21: extent() panics when the sequence holds no interval, and for a
\* sequence that holds exactly one interval it returns that interval
\* unchanged.
C21_ExtentSmall ==
  op = "extent" =>
    /\ Len(intervals) = 0 => panicked
    /\ Len(intervals) = 1 => (~panicked /\ ret_interval = intervals[1])

\* extent() was called on the sequence that IntervalSeq::empty() built
C21_Witness ==
  /\ op = "extent"
  /\ intervals = <<>>
  /\ panicked

\* extent() was called on a sequence that holds only the empty (0,0)
C21_WitnessSingle ==
  /\ op = "extent"
  /\ intervals = << open(Limit(0), Limit(0)) >>
  /\ ret_interval = open(Limit(0), Limit(0))

\* C22: IntervalSeq::gap() returns no interval when fewer than two intervals
\* are held; otherwise it returns the gaps of the neighbours at (i-1, i) of
\* the sequence in its current order, in pair order and with every empty
\* gap left out: at most len()-1 intervals, none of them empty.  gap() does
\* not sort the sequence.
C22_SeqGap ==
  op = "gap" =>
    LET n == Len(intervals)
        kept == {i \in 1..(n - 1) :
                   ~is_empty(gap(intervals[i], intervals[i + 1]))}
        \* the k-th pair that is kept
        pair(k) == CHOOSE i \in kept : Cardinality({j \in kept : j <= i}) = k
    IN /\ ~panicked
       /\ n < 2 => ret_seq = <<>>
       /\ Len(ret_seq) = Cardinality(kept)
       /\ Len(ret_seq) <= (IF n = 0 THEN 0 ELSE n - 1)
       /\ \A k \in 1..Len(ret_seq) :
            /\ ret_seq[k] = gap(intervals[pair(k)], intervals[pair(k) + 1])
            /\ ~is_empty(ret_seq[k])

\* (0,inf), (-inf,0) and [0,inf) are held in this order, which is not the
\* sorted one: the gap of the first pair is the point 0, the second pair
\* intersects and its gap is left out
C22_Witness ==
  /\ op = "gap"
  /\ intervals = << more_than(Limit(0)), under(Limit(0)), and_more(Limit(0)) >>
  /\ sort_intervals(intervals) # intervals
  /\ ret_seq = << closed(Limit(0), Limit(0)) >>

\* C23: IntervalLimit::new stores closed = false whenever the value is
\* Limitless, whatever the closed argument: the limits of an interval
\* constructed with an unbounded end are open at that end, a limit built as
\* closed and unbounded equals the one built as open and unbounded on the
\* same side, and no limit is both unbounded and closed.
C23_UnboundedIsOpen ==
  /\ (op = "new_with" /\ ~panicked) =>
       /\ args.lower.limitless => ~ret_interval.lower.closed
       /\ args.upper.limitless => ~ret_interval.upper.closed
  /\ \A i \in {self, other} :
       /\ i.lower.value.limitless => ~i.lower.closed
       /\ i.upper.value.limitless => ~i.upper.closed
  /\ \A side \in BOOLEAN :
       /\ IntervalLimit_new(TRUE, side, Limitless)
            = IntervalLimit_new(FALSE, side, Limitless)
       /\ IntervalLimit_eq(IntervalLimit_new(TRUE, side, Limitless),
                           IntervalLimit_new(FALSE, side, Limitless))

\* closed(Limitless, Limit(1)) was constructed: its lower limit is open
C23_Witness ==
  /\ op = "new_with"
  /\ args = [lower |-> Limitless, lower_closed |-> TRUE,
             upper |-> Limit(1), upper_closed |-> TRUE]
  /\ ~panicked
  /\ ~ret_interval.lower.closed
  /\ ret_interval.upper.closed

\* C24: an empty interval renders as "{}", a single-element interval at v as
\* "{" render(v) "}", and every other interval as "[" or "(", the lower
\* bound, ", ", the upper bound and "]" or ")", with "Infinity" for an
\* absent bound and nothing around it; closed(1, 2) renders as
\* "[Limit(1), Limit(2)]".
C24_Rendering ==
  op = "to_string" =>
    LET bound(b) ==
          IF b.limitless THEN <<"I", "n", "f", "i", "n", "i", "t", "y">>
          ELSE <<"L", "i", "m", "i", "t", "(">> \o T_to_string(b.v) \o <<")">>
        point == /\ ~self.lower.value.limitless
                 /\ ~self.upper.value.limitless
                 /\ self.lower.value.v = self.upper.value.v
    IN /\ (point /\ ~self.lower.closed /\ ~self.upper.closed)
            => ret_string = <<"{", "}">>
       /\ (point /\ self.lower.closed /\ self.upper.closed)
            => ret_string = <<"{">> \o bound(self.lower.value) \o <<"}">>
       /\ ~point =>
            ret_string = (IF self.lower.closed THEN <<"[">> ELSE <<"(">>)
                           \o bound(self.lower.value)
                           \o <<",", " ">>
                           \o bound(self.upper.value)
                           \o (IF self.upper.closed THEN <<"]">> ELSE <<")">>)
       /\ self = closed(Limit(1), Limit(2)) =>
            ret_string = <<"[", "L", "i", "m", "i", "t", "(", "1", ")", ",", " ",
                           "L", "i", "m", "i", "t", "(", "2", ")", "]">>

\* C25: to_value returns Ok with the contained value on Limit(v) and the
\* error NotFoundError on Limitless, without a panic; to_value_or returns
\* the contained value on Limit(v) and calls the default only on Limitless,
\* whose result it then returns.
C25_ToValue ==
  /\ op = "to_value" =>
       /\ ~panicked
       /\ ~value.limitless => (ret_value.ok /\ ret_value.value = value.v)
       /\ value.limitless =>
            (~ret_value.ok /\ ret_value.error = "NotFoundError")
  /\ op = "to_value_or" =>
       /\ ~panicked
       /\ ~value.limitless =>
            (ret_value.value = value.v /\ ret_value.default_calls = 0)
       /\ value.limitless =>
            (ret_value.value = args.default /\ ret_value.default_calls = 1)

\* to_value was called on Limitless and returned the error
C25_Witness ==
  /\ op = "to_value"
  /\ value = Limitless
  /\ ret_value = Err(NotFoundError)

\* to_value_or was called on Limit(1) with a default that returns 2
C25_WitnessOr ==
  /\ op = "to_value_or"
  /\ value = Limit(1)
  /\ args.default = 2
  /\ ret_value.value = 1

\* C26: after every call to iter(), whatever appends and iters came before,
\* the backing sequence is sorted under the policy (no interval compares
\* Greater than a later one) and the iterator yields the intervals in that
\* order; and an iter() that follows an iter() with no append in between
\* changes nothing and yields the same intervals in the same order.
C26_IterSorts ==
  /\ [](op = "iter" =>
          /\ \A i \in 1..Len(intervals), j \in 1..Len(intervals) :
               i < j => compare(ordered, intervals[i], intervals[j]) # Greater
          /\ ret_seq = intervals)
  /\ [][(op = "iter" /\ op' = "iter") =>
          (intervals' = intervals /\ ret_seq' = ret_seq)]_vars

\* iter() has sorted a sequence that was not sorted when it was called:
\* (0,inf) was appended before (-inf,0)
C26_Witness ==
  /\ op = "iter"
  /\ other = under(Limit(0))
  /\ intervals = << under(Limit(0)), more_than(Limit(0)) >>

\* an append after iter() has left the sequence unsorted: its first two
\* intervals are in order, the one appended last belongs before them
C26_WitnessUnsorted ==
  /\ op = "append"
  /\ Len(intervals) = 3
  /\ compare(ordered, intervals[1], intervals[2]) = Less
  /\ compare(ordered, intervals[2], intervals[3]) = Greater

\* C27: every call leaves the backing sequence a permutation of what was
\* put into it: append places its argument at the last index and leaves the
\* earlier intervals in place, iter only reorders (nothing is dropped,
\* deduplicated or added), and extent, gap, intersections, len, get and
\* is_empty leave the sequence as it is; len() is the number of intervals
\* put in.
C27_Permutation ==
  [][ LET count(list, x) == Cardinality({k \in 1..Len(list) : list[k] = x})
      IN /\ op' = "append" => intervals' = Append(intervals, other')
         /\ op' = "iter" =>
              /\ Len(intervals') = Len(intervals)
              /\ \A x \in SeqIntervals :
                   count(intervals', x) = count(intervals, x)
         /\ op' \in {"extent", "gap", "intersections", "len", "get", "is_empty"}
              => intervals' = intervals
         /\ op' = "len" => ret_len' = Len(intervals)
    ]_vars

\* iter() was called on a sequence that holds the same interval twice, and
\* both are still held
C27_Witness ==
  /\ op = "iter"
  /\ other = more_than(Limit(0))
  /\ intervals = << more_than(Limit(0)), more_than(Limit(0)) >>

\* len() was called on a sequence of two intervals
C27_WitnessLen ==
  /\ op = "len"
  /\ ret_len = 2
  /\ Len(intervals) = 2

\* C28: under a LowerUpper policy compare returns an Ordering for every pair
\* of intervals and every setting of the inversion flags: an empty interval
\* comes after a non-empty one, and two non-empty intervals are ordered by
\* their lower limits, reversed when inverse_lower is set, and when those
\* are equal by their upper limits, reversed when inverse_upper is set.
C28_LowerUpper ==
  (op = "compare" /\ args.kind = "LowerUpper") =>
    LET sign(a, b) == IF Rank(a) < Rank(b) THEN -1
                      ELSE IF Rank(a) = Rank(b) THEN 0 ELSE 1
        by_lower == sign(self.lower, other.lower)
                      * (IF args.inverse_lower THEN -1 ELSE 1)
        by_upper == sign(self.upper, other.upper)
                      * (IF args.inverse_upper THEN -1 ELSE 1)
        expected(n) == ret_ord = (IF n = -1 THEN Less
                                  ELSE IF n = 0 THEN Equal ELSE Greater)
    IN /\ ~panicked
       /\ (is_empty(self) /\ ~is_empty(other)) => ret_ord = Greater
       /\ (~is_empty(self) /\ is_empty(other)) => ret_ord = Less
       /\ (~is_empty(self) /\ ~is_empty(other)) =>
            IF by_lower # 0 THEN expected(by_lower) ELSE expected(by_upper)

\* C29: the comparison of IntervalLimit is a total order: partial_cmp of
\* every pair of limits is Less, Equal or Greater, the comparison of (a, b)
\* is the reverse of the comparison of (b, a), a <= b and b <= c give
\* a <= c, and a == b holds exactly when the comparison is Equal, which is
\* when a and b are of the same side and are both unbounded or hold the same
\* finite value with the same closedness.
C29_TotalOrder ==
  op = "partial_cmp" =>
    LET reverse(o) == IF o = Less THEN Greater
                      ELSE IF o = Greater THEN Less ELSE o
        same(x, y) ==
          /\ x.lower = y.lower
          /\ x.value.limitless = y.value.limitless
          /\ ~x.value.limitless => (x.value.v = y.value.v /\ x.closed = y.closed)
        a == limits[idx[1]]
        b == limits[idx[2]]
    IN /\ ret_ord \in {Less, Equal, Greater}
       /\ ret_ord = reverse(IntervalLimit_partial_cmp(b, a))
       /\ IntervalLimit_eq(a, b) <=> ret_ord = Equal
       /\ IntervalLimit_eq(a, b) <=> same(a, b)
       /\ IntervalLimit_eq(a, a)
       /\ \A k \in 1..Len(limits) :
            LET c == limits[k] IN
            /\ (IntervalLimit_le(a, b) /\ IntervalLimit_le(b, c))
                 => IntervalLimit_le(a, c)
            /\ (IntervalLimit_le(b, a) /\ IntervalLimit_le(a, c))
                 => IntervalLimit_le(b, c)
            /\ (IntervalLimit_le(c, a) /\ IntervalLimit_le(a, b))
                 => IntervalLimit_le(c, b)

\* the closed and the open lower limit and the open upper limit at one value
\* are in the list, and the first two have been compared
C29_Witness ==
  /\ op = "partial_cmp"
  /\ limits = <<IntervalLimit_lower(TRUE, Limit(1)),
                IntervalLimit_lower(FALSE, Limit(1)),
                IntervalLimit_upper(FALSE, Limit(1))>>
  /\ idx = <<1, 2>>
  /\ ret_ord = Less

\* two unbounded upper limits, constructed closed and open, compare Equal
C29_WitnessEqual ==
  /\ op = "partial_cmp"
  /\ Len(limits) >= 2
  /\ limits[idx[1]] = IntervalLimit_upper(TRUE, Limitless)
  /\ limits[idx[2]] = IntervalLimit_upper(FALSE, Limitless)
  /\ ret_ord = Equal

\* C30: every Interval built by a factory or returned by intersect,
\* empty_of_same_type, left_complement_relative_to,
\* right_complement_relative_to, complement_relative_to or extent has a
\* lower limit of side lower and an upper limit of side upper, with
\* lower <= upper in the order of IntervalLimit, its unbounded ends are open,
\* and if both bounds hold one finite value its ends are both closed or both
\* open; none of these operations panics on intervals built by a factory
\* (extent: on a sequence that holds at least one).
C30_ValidIntervals ==
  LET valid(i) ==
        /\ is_lower(i.lower)
        /\ is_upper(i.upper)
        /\ IntervalLimit_le(i.lower, i.upper)
        /\ is_limitless(i.lower.value) => limit_is_open(i.lower)
        /\ is_limitless(i.upper.value) => limit_is_open(i.upper)
        /\ (/\ ~is_limitless(i.lower.value)
            /\ ~is_limitless(i.upper.value)
            /\ i.lower.value.v = i.upper.value.v)
             => limit_is_closed(i.lower) = limit_is_closed(i.upper)
  IN /\ valid(self)
     /\ valid(other)
     /\ op \in {"intersect", "empty_of_same_type"} =>
          ~panicked /\ valid(ret_interval)
     /\ op \in {"left_complement_relative_to", "right_complement_relative_to"} =>
          ~panicked /\ (ret_interval = Nothing \/ valid(ret_interval))
     /\ op = "complement_relative_to" =>
          ~panicked /\ \A k \in 1..Len(ret_seq) : valid(ret_seq[k])
     /\ (op = "extent" /\ intervals # <<>>) =>
          ~panicked /\ valid(ret_interval)

\* intersect of [0, 1) and [1, 2] has returned an interval whose two bounds
\* hold the value 1
C30_Witness ==
  /\ op = "intersect"
  /\ self = new_with(Limit(0), TRUE, Limit(1), FALSE)
  /\ other = closed(Limit(1), Limit(2))
  /\ ret_interval.lower.value = Limit(1)
  /\ ret_interval.upper.value = Limit(1)

\* extent of two intervals has returned an interval that is neither of them
C30_WitnessExtent ==
  /\ op = "extent"
  /\ Len(intervals) = 2
  /\ ret_interval # intervals[1]
  /\ ret_interval # intervals[2]
  /\ ~panicked

\* complement_relative_to has returned two pieces
C30_WitnessComplement ==
  /\ op = "complement_relative_to"
  /\ Len(ret_seq) = 2

====
